---- MODULE Spec2Model ----
(***************************************************************************)
(* The skew-T notebook (notebooks/5-skewt.ipynb) as a state machine.       *)
(*                                                                         *)
(* State: the kernel's variables after the sounding columns are read       *)
(* (h, p, T, Td, u, v), the SkewT objects the cells build (skewt,          *)
(* skewt_plots), the loop index i, the LCL and parcel profile, the         *)
(* hodograph, the figure each cell has displayed and the position of the   *)
(* kernel in a top-to-bottom run of the notebook.                          *)
(*                                                                         *)
(* Arrays are sequences (Python index k is TLA+ index k+1).  MetPy and     *)
(* matplotlib are libraries the notebook calls and does not contain: a     *)
(* call is kept as the term of its application (function name and the      *)
(* arguments handed over), never evaluated.                                *)
(***************************************************************************)
EXTENDS Integers, Sequences, FiniteSets, TLC

(* ------------------------------ bounds --------------------------------- *)
MaxLevels == 11

(* ------------------------ constants of the notebook -------------------- *)
Rotation45 == 45
DefaultRotation == 30
BarbStride == 5
BarbMinPressure == 100
NumPanels == 4
ComponentRange == 50
GridIncrement == 10

(* ------------------------------ state ---------------------------------- *)
VARIABLES h, p, T, Td, u, v,
          skewt, skewt_plots, it, i,
          lcl_p, lcl_t, lcl_prof, hod,
          displayed, pc

data == <<h, p, T, Td, u, v>>
vars == <<h, p, T, Td, u, v, skewt, skewt_plots, it, i,
          lcl_p, lcl_t, lcl_prof, hod, displayed, pc>>

(* --------------------- terms of library applications ------------------- *)
\* One drawn artist or one library result: the function applied, where its
\* derived arguments came from (empty when every argument is a raw column), the
\* array arguments in call order, and the styling arguments.
Term(fn, src, args, kw) == [fn |-> fn, src |-> src, args |-> args, kw |-> kw]

None == Term("None", << >>, << >>, "")

\* SkewT(fig=fig, subplot=..., rotation=...): a fresh axes with nothing drawn.
SkewT(subplot, rotation) ==
  [bound |-> TRUE, subplot |-> subplot, rotation |-> rotation,
   ylim |-> << >>, title |-> "", artists |-> << >>]

Unbound ==
  [bound |-> FALSE, subplot |-> 0, rotation |-> 0,
   ylim |-> << >>, title |-> "", artists |-> << >>]

Draw(ax, a) == [ax EXCEPT !.artists = Append(@, a)]

\* Hodograph(ax_hod, component_range=50)
Hodograph(range) == [bound |-> TRUE, component_range |-> range,
                     increment |-> 0, artists |-> << >>]

NoHodograph == [bound |-> FALSE, component_range |-> 0,
                increment |-> 0, artists |-> << >>]

\* What a cell shows when it ends: the axes of its figure and the inset.
Figure(plots, inset) == [shown |-> TRUE, plots |-> plots, hod |-> inset]

NoFigure == [shown |-> FALSE, plots |-> << >>, hod |-> NoHodograph]

(* ------------------------- numpy array selection ----------------------- *)
\* a[::k] cut to the whole strides: the last, partial stride loses its barb.
StrideFloor(a, k) == [j \in 1..(Len(a) \div k) |-> a[(j - 1) * k + 1]]

\* a[::k]: elements 0, k, 2k, ... of a.
Stride(a, k) == [j \in 1..((Len(a) + k - 1) \div k) |-> a[(j - 1) * k + 1]]

\* A missing sample: read_csv fills an empty field with NaN.  The arrays hold
\* integers, so NaN is a value no sample takes; every comparison with it is
\* false, as in numpy.
NaN == -9999

\* a > c, elementwise: the level at the threshold itself is left out.
MaskGT(a, c) == [k \in 1..Len(a) |-> a[k] # NaN /\ a[k] > c]

\* a >= c, elementwise.
MaskGE(a, c) == [k \in 1..Len(a) |-> a[k] # NaN /\ a[k] >= c]

\* a[m] for a boolean mask m: the elements of a where m holds, in order.
RECURSIVE Select(_, _)
Select(a, m) ==
  IF a = << >> THEN << >>
  ELSE IF Head(m) THEN <<Head(a)>> \o Select(Tail(a), Tail(m))
       ELSE Select(Tail(a), Tail(m))

(* ------------------------- the sounding columns ------------------------ *)
\* One sounding file: n levels, surface pressure ps, surface temperature 25,
\* dewpoint depression dep, lapse per level, and at most one defect (a
\* pressure that is not positive, a pressure above the level below it, a
\* dewpoint above the temperature, a missing pressure, a missing
\* temperature) at level d.  read_csv checks none of this, so every such
\* file is a possible input.
Defects == {"none", "nonpos", "nonmono", "wet", "nan_p", "nan_T"}

Column(n, f(_)) == [k \in 1..n |-> f(k)]

File(n, ps, dep, lapse, defect, d) ==
  LET pk(k)  == IF defect = "nonpos" /\ k = d THEN 0
                ELSE IF defect = "nan_p" /\ k = d THEN NaN
                ELSE IF defect = "nonmono" /\ k = d /\ k > 1
                     THEN (ps \div (k - 1)) + 10
                     ELSE ps \div k
      T0(k)  == 25 - lapse * (k - 1)
      Tk(k)  == IF defect = "nan_T" /\ k = d THEN NaN ELSE T0(k)
      Tdk(k) == IF defect = "wet" /\ k = d THEN T0(k) + 2 ELSE T0(k) - dep
      hk(k)  == 100 * k
      uk(k)  == 2 * k
      vk(k)  == 0 - k
  IN [height |-> Column(n, hk), pressure |-> Column(n, pk),
      temperature |-> Column(n, Tk), dewpoint |-> Column(n, Tdk),
      u_wind |-> Column(n, uk), v_wind |-> Column(n, vk)]

Files ==
  { File(n, ps, dep, lapse, defect, d) :
      n \in 0..MaxLevels, ps \in {1000, 1013}, dep \in {0, 5},
      lapse \in {6, 8}, defect \in Defects, d \in 1..2 }

(* ------------------------------ initial state -------------------------- *)
\* Lines 117-122: the six columns of the frame, as arrays.
Init ==
  /\ \E df \in Files :
       /\ h = df.height
       /\ p = df.pressure
       /\ T = df.temperature
       /\ Td = df.dewpoint
       /\ u = df.u_wind
       /\ v = df.v_wind
  /\ skewt = Unbound
  /\ skewt_plots = << >>
  /\ it = 0
  /\ i = 0
  /\ lcl_p = None
  /\ lcl_t = None
  /\ lcl_prof = None
  /\ hod = NoHodograph
  /\ displayed = [c \in {"c10", "c13", "c16", "c19"} |-> NoFigure]
  /\ pc = "cell10"

(* ------------------------------ the calls ------------------------------ *)
\* skewt.plot(p, T, 'r'), skewt.plot(p, Td, 'b')
plot(x, y, fmt) == Term("plot", << >>, <<x, y>>, fmt)

\* skewt.plot(p, lcl_prof, 'k'): the curve of a computed profile.
plot_profile(x, prof, fmt) == Term("plot", <<prof.fn>>, <<x>> \o prof.args, fmt)

\* skewt.plot(lcl_p, lcl_t, 'ko'): the marker of a computed point.
plot_point(x, y, fmt) == Term("plot", <<x.fn, y.fn>>, x.args \o y.args, fmt)

plot_barbs(pp, uu, vv, kw) == Term("plot_barbs", << >>, <<pp, uu, vv>>, kw)

\* Line 152: skewt.plot_barbs(p[p >= 100], u[p >= 100], v[p >= 100])
BarbsAbove(pp, uu, vv) ==
  plot_barbs(Select(pp, MaskGE(pp, BarbMinPressure)),
             Select(uu, MaskGE(pp, BarbMinPressure)),
             Select(vv, MaskGE(pp, BarbMinPressure)), "")

\* Line 252: skewt.plot_barbs(p[::5], u[::5], v[::5])
BarbsEvery(pp, uu, vv, kw) ==
  plot_barbs(Stride(pp, BarbStride), Stride(uu, BarbStride),
             Stride(vv, BarbStride), kw)

\* Line 303: skewt_plots[i].plot_barbs(p[::5], u[::5], v[::5], length=5, ...)
LoopBarbs(pp, uu, vv) == BarbsEvery(pp, uu, vv, "length=5,linewidth=0.5")

plot_dry_adiabats(kw) == Term("plot_dry_adiabats", << >>, << >>, kw)
plot_moist_adiabats(kw) == Term("plot_moist_adiabats", << >>, << >>, kw)
plot_mixing_lines(kw) == Term("plot_mixing_lines", << >>, << >>, kw)

\* The arguments taken from the last level (index -1) instead of the first.
LclArgsTop(pp, TT, TTd) == << <<pp[Len(pp)]>>, <<TT[Len(TT)]>>, <<TTd[Len(TTd)]>> >>

\* Line 311: mpcalc.lcl(p[0]*units.hPa, T[0]*units.degC, Td[0]*units.degC)
LclArgs(pp, TT, TTd) == << <<pp[1]>>, <<TT[1]>>, <<TTd[1]>> >>

lcl(pp, TT, TTd) ==
  [pressure |-> Term("lcl[0]", << >>, LclArgs(pp, TT, TTd), "hPa,degC,degC"),
   temperature |-> Term("lcl[1]", << >>, LclArgs(pp, TT, TTd), "hPa,degC,degC")]

\* Line 312: mpcalc.parcel_profile(p*units.hPa, T[0]*..., Td[0]*...).to('degC')
parcel_profile(pp, TT, TTd) ==
  Term("parcel_profile.to(degC)", << >>, <<pp, <<TT[1]>>, <<TTd[1]>> >>,
       "hPa,degC,degC")

\* The shading called on the environment alone, without the parcel profile.
shade_cin_no_parcel(pp, TT, prof, TTd) == Term("shade_cin", << >>, <<pp, TT, TTd>>, "")

\* Line 332: shade_cin(p*units.hPa, T*units.degC, lcl_prof, Td*units.degC)
shade_cin(pp, TT, prof, TTd) ==
  Term("shade_cin", <<prof.fn>>, <<pp, TT>> \o prof.args \o <<TTd>>, "")

\* Line 333: shade_cape(p*units.hPa, T*units.degC, lcl_prof)
shade_cape(pp, TT, prof) ==
  Term("shade_cape", <<prof.fn>>, <<pp, TT>> \o prof.args, "")

axvline(x, fmt) == Term("axvline", << >>, << <<x>> >>, fmt)

add_grid(hd, inc) == [hd EXCEPT !.increment = inc]

plot_colormapped(uu, vv, hh) == Term("plot_colormapped", << >>, <<uu, vv, hh>>, "")

\* The list kept from the previous run of the cell instead of emptied.
KeepList(old) == old

\* Line 298: skewt_plots = []
NewList(old) == << >>

Show(c, f) == displayed' = [displayed EXCEPT ![c] = f]

OnPanel(n, a) == skewt_plots' = [skewt_plots EXCEPT ![n + 1] = Draw(@, a)]

Titled(n, t) == skewt_plots' = [skewt_plots EXCEPT ![n + 1].title = t]

(* ------------------------------ the cells ------------------------------ *)
\* Lines 145-152: the basic plot, shown when the cell ends.
Cell10 ==
  /\ pc = "cell10"
  /\ skewt' = Draw(Draw(Draw(SkewT(0, Rotation45), plot(p, T, "r")),
                        plot(p, Td, "b")), BarbsAbove(p, u, v))
  /\ Show("c10", Figure(<<skewt'>>, NoHodograph))
  /\ pc' = "cell13"
  /\ UNCHANGED <<data, skewt_plots, it, i, lcl_p, lcl_t, lcl_prof, hod>>

\* Lines 201-213: the same with the three families of isopleths.
Cell13 ==
  /\ pc = "cell13"
  /\ skewt' = Draw(Draw(Draw(Draw(Draw(Draw(SkewT(0, Rotation45),
                plot(p, T, "r")), plot(p, Td, "b")), BarbsAbove(p, u, v)),
                plot_dry_adiabats("")), plot_moist_adiabats("")),
                plot_mixing_lines(""))
  /\ Show("c13", Figure(<<skewt'>>, NoHodograph))
  /\ pc' = "cell16"
  /\ UNCHANGED <<data, skewt_plots, it, i, lcl_p, lcl_t, lcl_prof, hod>>

\* Lines 244-257: default rotation, y limits, a barb every fifth level.
Polished ==
  Draw(Draw(Draw(Draw(Draw(Draw(
    [SkewT(0, DefaultRotation) EXCEPT !.ylim = <<1000, 10>>],
    plot(p, T, "r")), plot(p, Td, "b")), BarbsEvery(p, u, v, "")),
    plot_dry_adiabats("linewidth=0.5")), plot_moist_adiabats("linewidth=0.5")),
    plot_mixing_lines("linewidth=0.5"))

\* Lines 244-262 on a frame with rows: the title reads df['station'][0].
Cell16 ==
  /\ pc = "cell16"
  /\ Len(p) > 0
  /\ skewt' = [Polished EXCEPT !.title = "station time"]
  /\ Show("c16", Figure(<<skewt'>>, NoHodograph))
  /\ pc' = "L295"
  /\ UNCHANGED <<data, skewt_plots, it, i, lcl_p, lcl_t, lcl_prof, hod>>

\* Lines 244-260 on a frame without rows: everything is drawn, then
\* df['station'][0] raises KeyError and the cell ends there, untitled; the
\* kernel lives on and the next cell can be run.
Cell16KeyError ==
  /\ pc = "cell16"
  /\ Len(p) = 0
  /\ skewt' = Polished
  /\ Show("c16", Figure(<<skewt'>>, NoHodograph))
  /\ pc' = "L295"
  /\ UNCHANGED <<data, skewt_plots, it, i, lcl_p, lcl_t, lcl_prof, hod>>

(* ------------------------ the four-panel cell -------------------------- *)
\* Lines 295-299: a new figure, an empty list, the loop's iterator.
NewFigure ==
  /\ pc = "L295"
  /\ skewt_plots' = NewList(skewt_plots)
  /\ it' = 0
  /\ pc' = "L299"
  /\ UNCHANGED <<data, skewt, i, lcl_p, lcl_t, lcl_prof, hod, displayed>>

\* Line 299: for i in range(0,4)
ForNext ==
  /\ pc = "L299"
  /\ it < NumPanels
  /\ i' = it
  /\ it' = it + 1
  /\ pc' = "L300"
  /\ UNCHANGED <<data, skewt, skewt_plots, lcl_p, lcl_t, lcl_prof, hod, displayed>>

ForEnd ==
  /\ pc = "L299"
  /\ it = NumPanels
  /\ pc' = "L311"
  /\ UNCHANGED <<data, skewt, skewt_plots, it, i, lcl_p, lcl_t, lcl_prof, hod,
                 displayed>>

\* Line 300: skewt_plots.append(SkewT(fig=fig, subplot=(1,4,i+1), rotation=45))
LoopAppend ==
  /\ pc = "L300"
  /\ skewt_plots' = Append(skewt_plots, SkewT(i + 1, Rotation45))
  /\ pc' = "L301"
  /\ UNCHANGED <<data, skewt, it, i, lcl_p, lcl_t, lcl_prof, hod, displayed>>

Step(from, to, a) ==
  /\ pc = from
  /\ OnPanel(i, a)
  /\ pc' = to
  /\ UNCHANGED <<data, skewt, it, i, lcl_p, lcl_t, lcl_prof, hod, displayed>>

\* Lines 301-306
LoopPlotT == Step("L301", "L302", plot(p, T, "r"))
LoopPlotTd == Step("L302", "L303", plot(p, Td, "b"))
LoopPlotBarbs == Step("L303", "L304", LoopBarbs(p, u, v))
LoopDry == Step("L304", "L305", plot_dry_adiabats("linewidth=0.5"))
LoopMoist == Step("L305", "L306", plot_moist_adiabats("linewidth=0.5"))
LoopMixing == Step("L306", "L307", plot_mixing_lines("linewidth=0.5"))

\* Lines 307-308: empty axis labels, back to the loop head.
LoopLabels ==
  /\ pc = "L307"
  /\ pc' = "L299"
  /\ UNCHANGED <<data, skewt, skewt_plots, it, i, lcl_p, lcl_t, lcl_prof, hod,
                 displayed>>

\* Line 311 on a sounding with a surface level.
CalcLCL ==
  /\ pc = "L311"
  /\ Len(p) > 0
  /\ lcl_p' = lcl(p, T, Td).pressure
  /\ lcl_t' = lcl(p, T, Td).temperature
  /\ pc' = "L312"
  /\ UNCHANGED <<data, skewt, skewt_plots, it, i, lcl_prof, hod, displayed>>

\* Line 311 on an empty sounding: p[0] raises IndexError and the cell ends
\* with the four panels it has drawn.
CalcLCLIndexError ==
  /\ pc = "L311"
  /\ Len(p) = 0
  /\ Show("c19", Figure(skewt_plots, hod))
  /\ pc' = "error"
  /\ UNCHANGED <<data, skewt, skewt_plots, it, i, lcl_p, lcl_t, lcl_prof, hod>>

\* Line 312
CalcParcel ==
  /\ pc = "L312"
  /\ lcl_prof' = parcel_profile(p, T, Td)
  /\ pc' = "L317"
  /\ UNCHANGED <<data, skewt, skewt_plots, it, i, lcl_p, lcl_t, hod, displayed>>

\* Lines 317-319: the parcel curve and the LCL marker on panel 0.
PanelLCL ==
  /\ pc = "L317"
  /\ skewt_plots' = [skewt_plots EXCEPT
       ![1] = Draw(Draw([@ EXCEPT !.title = "LCL and Parcel Profile"],
                        plot_profile(p, lcl_prof, "k")),
                   plot_point(lcl_p, lcl_t, "ko"))]
  /\ pc' = "L323"
  /\ UNCHANGED <<data, skewt, it, i, lcl_p, lcl_t, lcl_prof, hod, displayed>>

\* Lines 323-324: the constant temperature line on panel 1.
PanelZeroLine ==
  /\ pc = "L323"
  /\ skewt_plots' = [skewt_plots EXCEPT
       ![2] = Draw([@ EXCEPT !.title = "Constant T Line at 0 C"],
                   axvline(0, "k--"))]
  /\ pc' = "L330"
  /\ UNCHANGED <<data, skewt, it, i, lcl_p, lcl_t, lcl_prof, hod, displayed>>

\* Lines 330-331: the parcel curve on panel 2.
PanelShadeCurve ==
  /\ pc = "L330"
  /\ skewt_plots' = [skewt_plots EXCEPT
       ![3] = Draw([@ EXCEPT !.title = "Shade CAPE and CIN"],
                   plot_profile(p, lcl_prof, "k"))]
  /\ pc' = "L332"
  /\ UNCHANGED <<data, skewt, it, i, lcl_p, lcl_t, lcl_prof, hod, displayed>>

\* Line 332
ShadeCIN ==
  /\ pc = "L332"
  /\ OnPanel(2, shade_cin(p, T, lcl_prof, Td))
  /\ pc' = "L333"
  /\ UNCHANGED <<data, skewt, it, i, lcl_p, lcl_t, lcl_prof, hod, displayed>>

\* Line 333
ShadeCAPE ==
  /\ pc = "L333"
  /\ OnPanel(2, shade_cape(p, T, lcl_prof))
  /\ pc' = "L339"
  /\ UNCHANGED <<data, skewt, it, i, lcl_p, lcl_t, lcl_prof, hod, displayed>>

\* Lines 339-343: the hodograph in an inset of panel 3.
PanelHodograph ==
  /\ pc = "L339"
  /\ Titled(3, "Hodograph")
  /\ hod' = [add_grid(Hodograph(ComponentRange), GridIncrement)
               EXCEPT !.artists = <<plot_colormapped(u, v, h)>>]
  /\ pc' = "show19"
  /\ UNCHANGED <<data, skewt, it, i, lcl_p, lcl_t, lcl_prof, displayed>>

\* The end of the cell: the figure is shown under it.
Show19 ==
  /\ pc = "show19"
  /\ Show("c19", Figure(skewt_plots, hod))
  /\ pc' = "done"
  /\ UNCHANGED <<data, skewt, skewt_plots, it, i, lcl_p, lcl_t, lcl_prof, hod>>

\* The cell is run again on the same kernel.
Rerun19 ==
  /\ pc = "done"
  /\ pc' = "L295"
  /\ UNCHANGED <<data, skewt, skewt_plots, it, i, lcl_p, lcl_t, lcl_prof, hod,
                 displayed>>

Next ==
  \/ Cell10 \/ Cell13 \/ Cell16 \/ Cell16KeyError
  \/ NewFigure \/ ForNext \/ ForEnd \/ LoopAppend
  \/ LoopPlotT \/ LoopPlotTd \/ LoopPlotBarbs
  \/ LoopDry \/ LoopMoist \/ LoopMixing \/ LoopLabels
  \/ CalcLCL \/ CalcLCLIndexError \/ CalcParcel
  \/ PanelLCL \/ PanelZeroLine \/ PanelShadeCurve
  \/ ShadeCIN \/ ShadeCAPE \/ PanelHodograph
  \/ Show19 \/ Rerun19

Spec == Init /\ [][Next]_vars

(* ============================== properties ============================= *)
Levels == Len(p)

\* The least m with d * m >= n.
CeilDiv(n, d) == CHOOSE m \in 0..n : d * m >= n /\ (m = 0 \/ d * (m - 1) < n)

Has(ax, fn) == \E k \in 1..Len(ax.artists) : ax.artists[k].fn = fn

Index(ax, fn) == CHOOSE k \in 1..Len(ax.artists) : ax.artists[k].fn = fn

\* The axes whose barbs were subsampled with stride 5: the polished plot of
\* lines 244-262 and the four panels.
StridedAxes ==
  {skewt_plots[n] : n \in 1..Len(skewt_plots)}
    \cup (IF skewt.rotation = DefaultRotation THEN {skewt} ELSE {})

\* The barbs of ax are those of levels 0, 5, 10, ...: one per started stride,
\* each with the pressure, u and v of its level, the pressure being the one
\* the temperature curve of the same axes has at that level.
EveryFifth(ax) ==
  Has(ax, "plot_barbs") =>
    LET b == ax.artists[Index(ax, "plot_barbs")]
        curve == ax.artists[1]
    IN /\ Len(b.args[1]) = CeilDiv(Levels, BarbStride)
       /\ Len(b.args[2]) = CeilDiv(Levels, BarbStride)
       /\ Len(b.args[3]) = CeilDiv(Levels, BarbStride)
       /\ \A j \in 1..Len(b.args[1]) :
            LET k == BarbStride * (j - 1) + 1
            IN /\ k <= Levels
               /\ b.args[1][j] = p[k]
               /\ b.args[2][j] = u[k]
               /\ b.args[3][j] = v[k]
               /\ curve.fn = "plot"
               /\ curve.args[1][k] = b.args[1][j]

\* C2: with stride 5 on a sounding of N levels (N >= 0) exactly ceil(N/5)
\* barbs are handed to plot_barbs, those of levels 0, 5, 10, ... in sounding
\* order, each at the pressure of its level on the axes of the curves.
C2_BarbsEveryFifth == \A ax \in StridedAxes : EveryFifth(ax)

\* A sounding of 11 levels or more has its three barbs on the polished plot.
C2_Witness ==
  /\ Levels >= 11
  /\ skewt.rotation = DefaultRotation
  /\ Has(skewt, "plot_barbs")
  /\ Len(skewt.artists[Index(skewt, "plot_barbs")].args[1]) >= 3

\* A valid sounding: positive pressures, strictly decreasing with height,
\* no dewpoint above its temperature.
\* Missing samples aside (they are a matter of their own).
Valid ==
  /\ \A k \in 1..Levels :
       /\ p[k] # NaN => p[k] > 0
       /\ (T[k] # NaN /\ Td[k] # NaN) => Td[k] <= T[k]
  /\ \A j, k \in 1..Levels :
       (j < k /\ p[j] # NaN /\ p[k] # NaN) => p[k] < p[j]

NothingProduced ==
  /\ skewt.artists = << >>
  /\ \A n \in 1..Len(skewt_plots) : skewt_plots[n].artists = << >>
  /\ lcl_p = None /\ lcl_t = None /\ lcl_prof = None
  /\ hod = NoHodograph
  /\ \A c \in DOMAIN displayed : displayed[c] = NoFigure

\* C5: a sounding with a pressure that is not positive, a dewpoint above its
\* temperature or a pressure sequence that is not monotonic is rejected
\* before any computation: nothing is drawn or computed for it.
C5_RejectedBeforeComputation == ~Valid => NothingProduced

Surface(pp, TT, TTd) == <<pp[1], TT[1], TTd[1]>>

SameSurface(df) ==
  /\ Len(df.pressure) > 0
  /\ Surface(df.pressure, df.temperature, df.dewpoint) = Surface(p, T, Td)

\* C8: the LCL depends on the surface level alone: every sounding file with
\* the surface pressure, temperature and dewpoint of this one gets the LCL
\* this one got, whatever its other levels are.
C8_LclOfSurfaceOnly ==
  lcl_p # None =>
    \A df \in Files :
      SameSurface(df) =>
        /\ lcl(df.pressure, df.temperature, df.dewpoint).pressure = lcl_p
        /\ lcl(df.pressure, df.temperature, df.dewpoint).temperature = lcl_t

\* The LCL is computed and another file shares the surface and differs aloft.
C8_Witness ==
  /\ lcl_p # None
  /\ \E df \in Files :
       /\ SameSurface(df)
       /\ df.temperature # T
       /\ Len(df.pressure) # Levels

(* --------------------- the order of the four-panel pass ---------------- *)
PassOrder ==
  <<"L299", "L300", "L301", "L302", "L303", "L304", "L305", "L306", "L307",
    "L311", "L312", "L317", "L323", "L330", "L332", "L333", "L339",
    "show19", "done">>

InPass == \E k \in 1..Len(PassOrder) : PassOrder[k] = pc

Pos(label) == CHOOSE k \in 1..Len(PassOrder) : PassOrder[k] = label

\* The statement at label has been executed in this pass, the loop done.
Past(label) == InPass /\ Pos(pc) > Pos(label) /\ Pos(pc) > Pos("L307")

Isopleths == {"plot_dry_adiabats", "plot_moist_adiabats", "plot_mixing_lines"}

BarbsPlaced == \E n \in 1..Len(skewt_plots) : Has(skewt_plots[n], "plot_barbs")

IsoplethsGenerated ==
  /\ Len(skewt_plots) = NumPanels
  /\ \A n \in 1..NumPanels : \A f \in Isopleths : Has(skewt_plots[n], f)

ParcelSolved == Past("L312")

Shaded(fn) == Len(skewt_plots) >= 3 /\ Has(skewt_plots[3], fn)

CapeCinIntegrated == Shaded("shade_cin") /\ Shaded("shade_cape")

HodographPlaced == Past("L339")

Handed == InPass /\ pc = "done"

\* C9 as stated: isopleths, then the parcel profile, then CAPE/CIN, then the
\* barbs and the hodograph, then the hand-over to the renderer.
C9_OrderAsStated ==
  InPass =>
    /\ ParcelSolved => IsoplethsGenerated
    /\ (Shaded("shade_cin") \/ Shaded("shade_cape")) => ParcelSolved
    /\ (BarbsPlaced \/ HodographPlaced) => CapeCinIntegrated
    /\ Handed => (BarbsPlaced /\ HodographPlaced)

\* On every panel the barbs come before the isopleths.
BarbsBeforeIsopleths(ax) ==
  \A f \in Isopleths :
    Has(ax, f) => Has(ax, "plot_barbs") /\ Index(ax, "plot_barbs") < Index(ax, f)

ShadedFromParcel(fn) ==
  Shaded(fn) =>
    LET a == skewt_plots[3].artists[Index(skewt_plots[3], fn)]
    IN /\ ParcelSolved
       /\ a.src = <<lcl_prof.fn>>
       /\ lcl_prof = parcel_profile(p, T, Td)
       /\ SubSeq(a.args, 3, 5) = lcl_prof.args

\* C9, amended: per panel the curves and barbs are placed, then the
\* isopleths generated; after the four panels the parcel profile is solved,
\* then CIN and CAPE are shaded from it, then the hodograph is placed, then
\* the figure is shown; no shading runs without the parcel profile.
C9_OrderOfThePass ==
  InPass =>
    /\ \A n \in 1..Len(skewt_plots) : BarbsBeforeIsopleths(skewt_plots[n])
    /\ ParcelSolved => (IsoplethsGenerated /\ BarbsPlaced)
    /\ ShadedFromParcel("shade_cin")
    /\ ShadedFromParcel("shade_cape")
    /\ Shaded("shade_cape") => Shaded("shade_cin")
    /\ HodographPlaced => (CapeCinIntegrated /\ hod.bound)
    /\ Handed => (HodographPlaced /\ displayed["c19"] = Figure(skewt_plots, hod))

\* The pass has ended: shaded, hodograph placed, figure shown.
C9_Witness ==
  /\ Handed
  /\ CapeCinIntegrated
  /\ Has(hod, "plot_colormapped")
  /\ displayed["c19"].shown

(* ------------------------- repeated renders ---------------------------- *)
LoopArtists == 6

Rendered(n) == Len(skewt_plots[n].artists) >= LoopArtists

\* What one iteration of the loop drew on its panel.
Render(n) ==
  [rotation |-> skewt_plots[n].rotation, ylim |-> skewt_plots[n].ylim,
   artists |-> SubSeq(skewt_plots[n].artists, 1, LoopArtists)]

\* C10: the renders of one sounding under one configuration are identical:
\* the four panels of the loop carry the same geometry, and a cell run again
\* shows the figure it showed before.
C10_RendersIdentical ==
  /\ \A m, n \in 1..Len(skewt_plots) :
       (Rendered(m) /\ Rendered(n)) => Render(m) = Render(n)
  /\ Past("L307") => (Len(skewt_plots) = NumPanels
                      /\ \A n \in 1..NumPanels : Rendered(n))
  /\ (pc = "show19" /\ displayed["c19"].shown) =>
       Figure(skewt_plots, hod) = displayed["c19"]

\* The cell was run again and is about to show its second figure.
C10_Witness ==
  /\ pc = "show19"
  /\ displayed["c19"].shown
  /\ Levels >= 6
  /\ \A n \in 1..NumPanels : Rendered(n)

(* --------------------------- missing samples --------------------------- *)
Columns == <<h, p, T, Td, u, v>>

\* The levels with a missing sample in some column.
Affected == {k \in 1..Levels : \E c \in 1..Len(Columns) : Columns[c][k] = NaN}

\* The levels of column a that are not affected, in their original order.
Kept(a) == Select(a, [k \in 1..Levels |-> k \notin Affected])

AllAxes == {skewt_plots[n] : n \in 1..Len(skewt_plots)} \cup {skewt}

\* The skip policy: every curve drawn is the curve of the kept levels.
Skipped ==
  \A ax \in AllAxes :
    Has(ax, "plot") =>
      /\ ax.artists[1] = plot(Kept(p), Kept(T), "r")
      /\ Len(ax.artists) >= 2
      /\ ax.artists[2] = plot(Kept(p), Kept(Td), "b")

\* C11: an otherwise valid sounding with a missing sample either fails as a
\* whole, nothing being produced for it (the fail policy), or has exactly the
\* affected levels dropped, the others kept in order (the skip policy).
C11_MissingSamplePolicy ==
  (Valid /\ Affected # {}) => (NothingProduced \/ Skipped)

(* --------------------------- thresholded barbs ------------------------- *)
\* The levels whose pressure is at or above the threshold.
AtOrAbove == {k \in 1..Levels : p[k] # NaN /\ p[k] >= BarbMinPressure}

\* The j-th of them, from the surface up.
NthAtOrAbove(j) ==
  CHOOSE k \in AtOrAbove : Cardinality({m \in AtOrAbove : m < k}) = j - 1

\* The axes whose barbs were thresholded: the plots of lines 145-152 and
\* 201-213.
ThresholdedAxes == IF skewt.rotation = Rotation45 THEN {skewt} ELSE {}

====
